---- MODULE Spec2Model ----
(***************************************************************************)
(* Model of src/src/decision_making.cpp: run(), the simulation driver.     *)
(* run() loads the configuration, builds the vehicles, and for every round *)
(* resets them and ticks until the termination check ends the round; each  *)
(* tick starts one thread per vehicle running                              *)
(*     vehicle->excute(vehicles.exclude(vehicle))                          *)
(* and joins them all.  After the round it replays every footprint, and    *)
(* after the last round it prints the success rate.                        *)
(*                                                                         *)
(* Vehicle, VehicleList, the planner and the oracles are declared in       *)
(* headers outside src/; they are modelled from the specification on a     *)
(* one-dimensional abstraction of the crossroads: a vehicle's State is its *)
(* progress 0..Goal along its route, routes share the cell `cross`.        *)
(* Time is counted in integer units (delta_t, max_simulation_time).        *)
(* The matplotlib calls are output only: `frame` keeps which drawing the   *)
(* figure shows.  save_path and save_fig only decide whether the figure of *)
(* a round is also written to a file (lines 152-154) and are left out.     *)
(***************************************************************************)
EXTENDS Integers, Sequences, FiniteSets, TLC

\* ---------------------------------------------------------------- bounds
NumVehicles == 2
Goal == 2
MaxRounds == 2
MaxSimTime == 2
MaxRateRounds == 3

Vehicles == 1..NumVehicles
Levels == {0, 1}
InitPoses == {0, 1}
DeltaTs == {1, 2}
RoundsNums == {-1} \cup (0..MaxRounds)
Configs == {"unparsable", "missing_key", "ok"}
Actions == {"ACCELERATE", "BRAKE"}
\* Where the routes may cross: in the start area, just before the targets,
\* or at the targets themselves.
CrossCells == {1, Goal - 1, Goal}

VARIABLES
    cfg,            \* what the configuration file holds
    rounds_num,     \* int rounds_num                       (line 36)
    show_animation, \* bool show_animation                  (line 36)
    delta_t,        \* config["delta_t"]                    (line 49)
    level,          \* per vehicle: reasoning level (config)
    cross,          \* the cell where the routes cross (config geometry)
    pc,             \* position of the main thread in run()
    env,            \* EnvCrossroads / planner statics initialized (54-57)
    vehicles,       \* VehicleList vehicles: the vehicles created  (59-64)
    state,          \* per vehicle: vehicle->state
    footprint,      \* per vehicle: vehicle->footprint
    cur_action,     \* per vehicle: vehicle->cur_action
    succeed_count,  \* uint64_t succeed_count               (line 66)
    iter,           \* uint64_t iter                        (line 67)
    timestamp,      \* double timestamp                     (line 76)
    k,              \* index of the next thread to spawn / join (96, 103)
    tpc,            \* per vehicle: position of its thread of this tick
    obs,            \* per thread: the states of the others as it read them
    log,            \* the round's result line: "none", "successed", "failed"
    error,          \* spdlog::error was called              (line 44)
    succeed_rate,   \* double succeed_rate, in hundredths of a percent (157)
    frame,          \* the figure: "none", "tick" (112-132) or "round" (136-151)
    \* history variables (not program state)
    snapshot,       \* the states at the start of the current tick
    cause,          \* why the termination check ended the round
    recorded,       \* the <<cause, log>> pairs of the rounds ended so far
    ticks,          \* planning ticks started in the current round
    before_replay   \* state and footprint when the round ended

vars == <<cfg, rounds_num, show_animation, delta_t, level, cross, pc, env,
          vehicles, state, footprint, cur_action, succeed_count, iter,
          timestamp, k, tpc, obs, log, error, succeed_rate, frame,
          snapshot, cause, recorded, ticks, before_replay>>

config_vars == <<cfg, rounds_num, show_animation, delta_t, level, cross>>
thread_vars == <<tpc, obs>>
history_vars == <<snapshot, cause, recorded, ticks, before_replay>>

\* ------------------------------------------------- helpers outside src/
\* VehicleList::exclude(vehicle): the other vehicles, in list order.
exclude(v) == [i \in 1..(NumVehicles - 1) |-> IF i < v THEN i ELSE i + 1]

\* VehicleList::is_all_get_target(): every vehicle is at its target.
is_all_get_target(st) == \A v \in Vehicles : st[v] = Goal

\* VehicleList::is_any_collision(): two vehicles overlap; footprints overlap
\* only in the cell the routes share.
is_any_collision(st) ==
    \E a, b \in Vehicles : a # b /\ st[a] = cross /\ st[b] = cross

\* The planner's choice (4.2): level 0 does not react to the others; a
\* higher level yields when it is about to enter the crossing and sees
\* another vehicle in it or about to enter it.
plan(lv, own, others) ==
    IF lv >= 1 /\ own = cross - 1
       /\ \E i \in DOMAIN others : others[i] \in {cross - 1, cross}
    THEN "BRAKE" ELSE "ACCELERATE"

\* VehicleList::reset(): every vehicle is put at the initial pose drawn for
\* the round and its footprint restarts there.
reset(init) == <<init, [v \in Vehicles |-> <<init[v]>>]>>

\* One kinematic step (4.1), clamped at the target.
kinematic_propagate(s, a) ==
    IF a = "ACCELERATE" /\ s < Goal THEN s + 1 ELSE s

\* ------------------------------------------------------------- run()
\* uint64_t iter < int rounds_num: rounds_num is converted to uint64_t, so
\* a negative rounds_num compares as 2^64 + rounds_num, above every iter
\* the model reaches.
LoopContinues(i, n) == IF n < 0 THEN TRUE ELSE i < n

\* double succeed_rate = 100 * succeed_count / rounds_num: an unsigned
\* 64-bit integer division whose quotient is then converted to double.
\* The value is kept in hundredths of a percent, as {:.2f} prints it.
SucceedRate(sc, n) == ((100 * sc) \div n) * 100

\* The state on entry to run(): nothing is built yet.
InitRun ==
    /\ pc = "load"
    /\ env = FALSE
    /\ vehicles = {}
    /\ state = [v \in Vehicles |-> 0]
    /\ footprint = [v \in Vehicles |-> <<>>]
    /\ cur_action = [v \in Vehicles |-> "BRAKE"]
    /\ succeed_count = 0
    /\ iter = 0
    /\ timestamp = 0
    /\ k = 1
    /\ tpc = [v \in Vehicles |-> "idle"]
    /\ obs = [v \in Vehicles |-> <<>>]
    /\ log = "none"
    /\ error = FALSE
    /\ succeed_rate = 0
    /\ frame = "none"
    /\ snapshot = [v \in Vehicles |-> 0]
    /\ cause = "none"
    /\ recorded = {}
    /\ ticks = 0
    /\ before_replay = <<>>

\* The command line and the configuration file are the inputs.
Init ==
    /\ cfg \in Configs
    /\ rounds_num \in RoundsNums
    /\ show_animation \in BOOLEAN
    /\ delta_t \in DeltaTs
    /\ level \in [Vehicles -> Levels]
    /\ cross \in CrossCells
    /\ InitRun

\* LoadConfig with the `return` of line 45 missing: the error is logged and
\* run() goes on to initialize from the empty node.
LoadConfigNoReturn ==
    /\ pc = "load"
    /\ error' = (cfg = "unparsable")
    /\ pc' = "init"
    /\ UNCHANGED <<config_vars, env, vehicles, state, footprint, cur_action,
                   succeed_count, iter, timestamp, k, thread_vars, log,
                   succeed_rate, frame, history_vars>>

\* Lines 38-46: YAML::LoadFile in a try block; a YAML::Exception is logged
\* and run() returns.
LoadConfig ==
    /\ pc = "load"
    /\ IF cfg = "unparsable"
       THEN /\ error' = TRUE
            /\ pc' = "returned"
       ELSE /\ error' = error
            /\ pc' = "init"
    /\ UNCHANGED <<config_vars, env, vehicles, state, footprint, cur_action,
                   succeed_count, iter, timestamp, k, thread_vars, log,
                   succeed_rate, frame, history_vars>>

\* Lines 49-64: the required keys are read with as<T>() outside any try
\* block; a missing or ill-typed key throws, nothing catches it, and the
\* process is terminated.  The throw comes before or after lines 54-56,
\* depending on the key.  Otherwise the environment, the planner statics and
\* one Vehicle per entry of vehicle_list are set up.
Initialize ==
    /\ pc = "init"
    /\ IF cfg = "missing_key"
       THEN /\ pc' = "crashed"
            /\ env' \in BOOLEAN
            /\ vehicles' = vehicles
       ELSE /\ pc' = "loop"
            /\ env' = TRUE
            /\ vehicles' = Vehicles
    /\ succeed_count' = 0
    /\ UNCHANGED <<config_vars, state, footprint, cur_action, iter,
                   timestamp, k, thread_vars, log, error, succeed_rate,
                   frame, history_vars>>

\* RoundStart with the vehicles.reset() of line 68 missing.
RoundStartNoReset ==
    /\ pc = "loop"
    /\ LoopContinues(iter, rounds_num)
    /\ rounds_num < 0 => iter = 0
    /\ UNCHANGED <<state, footprint>>
    /\ cur_action' = [v \in Vehicles |-> "BRAKE"]
    /\ timestamp' = 0
    /\ log' = "none"
    /\ cause' = "none"
    /\ ticks' = 0
    /\ snapshot' = [v \in Vehicles |-> 0]
    /\ before_replay' = <<>>
    /\ pc' = "check"
    /\ UNCHANGED <<config_vars, env, vehicles, succeed_count, iter, k,
                   thread_vars, error, succeed_rate, frame, recorded>>

\* Lines 67-77: the loop test, vehicles.reset() and timestamp = 0.0.
\* (The loop of a negative rounds_num does not end; the model follows its
\* first round only.)
RoundStart ==
    /\ pc = "loop"
    /\ LoopContinues(iter, rounds_num)
    /\ rounds_num < 0 => iter = 0
    /\ \E init \in [Vehicles -> InitPoses] :
          /\ state' = reset(init)[1]
          /\ footprint' = reset(init)[2]
    /\ cur_action' = [v \in Vehicles |-> "BRAKE"]
    /\ timestamp' = 0
    /\ log' = "none"
    /\ cause' = "none"
    /\ ticks' = 0
    /\ snapshot' = [v \in Vehicles |-> 0]
    /\ before_replay' = <<>>
    /\ pc' = "check"
    /\ UNCHANGED <<config_vars, env, vehicles, succeed_count, iter, k,
                   thread_vars, error, succeed_rate, frame, recorded>>

\* Check with the `break` of line 91 missing: the failure is logged and the
\* tick starts all the same.
CheckNoBreak ==
    /\ pc = "check"
    /\ IF is_all_get_target(state)
       THEN /\ log' = "successed"
            /\ succeed_count' = succeed_count + 1
            /\ cause' = "all_target"
            /\ pc' = "replay"
            /\ UNCHANGED <<snapshot, ticks>>
       ELSE /\ IF is_any_collision(state) \/ timestamp > MaxSimTime
               THEN /\ log' = "failed"
                    /\ cause' = IF is_any_collision(state) THEN "collision"
                                                           ELSE "timeout"
               ELSE UNCHANGED <<log, cause>>
            /\ succeed_count' = succeed_count
            /\ pc' = "spawn"
            /\ snapshot' = state
            /\ ticks' = ticks + 1
    /\ recorded' = IF log' # "none" THEN recorded \cup {<<cause', log'>>}
                                    ELSE recorded
    /\ k' = 1
    /\ UNCHANGED <<config_vars, env, vehicles, state, footprint, cur_action,
                   iter, timestamp, thread_vars, error, succeed_rate, frame,
                   before_replay>>

\* Check with `continue` in place of the `break` of line 91: a failed check
\* is logged and the loop tests again.
CheckContinue ==
    /\ pc = "check"
    /\ IF is_all_get_target(state)
       THEN /\ log' = "successed"
            /\ succeed_count' = succeed_count + 1
            /\ cause' = "all_target"
            /\ pc' = "replay"
            /\ UNCHANGED <<snapshot, ticks>>
       ELSE IF is_any_collision(state) \/ timestamp > MaxSimTime
       THEN /\ log' = "failed"
            /\ succeed_count' = succeed_count
            /\ cause' = IF is_any_collision(state) THEN "collision"
                                                   ELSE "timeout"
            /\ pc' = "check"
            /\ UNCHANGED <<snapshot, ticks>>
       ELSE /\ pc' = "spawn"
            /\ snapshot' = state
            /\ ticks' = ticks + 1
            /\ UNCHANGED <<log, succeed_count, cause>>
    /\ recorded' = IF log' # "none" THEN recorded \cup {<<cause', log'>>}
                                    ELSE recorded
    /\ k' = 1
    /\ UNCHANGED <<config_vars, env, vehicles, state, footprint, cur_action,
                   iter, timestamp, thread_vars, error, succeed_rate, frame,
                   before_replay>>

\* Check with the ceiling of line 87 read one tick late:
\* timestamp > max_simulation_time + delta_t.
CheckLateTimeout ==
    /\ pc = "check"
    /\ IF is_all_get_target(state)
       THEN /\ log' = "successed"
            /\ succeed_count' = succeed_count + 1
            /\ cause' = "all_target"
            /\ pc' = "replay"
            /\ UNCHANGED <<snapshot, ticks>>
       ELSE IF is_any_collision(state) \/ timestamp > MaxSimTime + delta_t
       THEN /\ log' = "failed"
            /\ succeed_count' = succeed_count
            /\ cause' = IF is_any_collision(state) THEN "collision"
                                                   ELSE "timeout"
            /\ pc' = "replay"
            /\ UNCHANGED <<snapshot, ticks>>
       ELSE /\ pc' = "spawn"
            /\ snapshot' = state
            /\ ticks' = ticks + 1
            /\ UNCHANGED <<log, succeed_count, cause>>
    /\ recorded' = IF pc' = "replay" THEN recorded \cup {<<cause', log'>>}
                                     ELSE recorded
    /\ k' = 1
    /\ UNCHANGED <<config_vars, env, vehicles, state, footprint, cur_action,
                   iter, timestamp, thread_vars, error, succeed_rate, frame,
                   before_replay>>

\* Check with ++succeed_count of line 83 also done on the failure branch.
CheckCountsAll ==
    /\ pc = "check"
    /\ IF is_all_get_target(state)
       THEN /\ log' = "successed"
            /\ succeed_count' = succeed_count + 1
            /\ cause' = "all_target"
            /\ pc' = "replay"
            /\ UNCHANGED <<snapshot, ticks>>
       ELSE IF is_any_collision(state) \/ timestamp > MaxSimTime
       THEN /\ log' = "failed"
            /\ succeed_count' = succeed_count + 1
            /\ cause' = IF is_any_collision(state) THEN "collision"
                                                   ELSE "timeout"
            /\ pc' = "replay"
            /\ UNCHANGED <<snapshot, ticks>>
       ELSE /\ pc' = "spawn"
            /\ snapshot' = state
            /\ ticks' = ticks + 1
            /\ UNCHANGED <<log, succeed_count, cause>>
    /\ recorded' = IF pc' = "replay" THEN recorded \cup {<<cause', log'>>}
                                     ELSE recorded
    /\ k' = 1
    /\ UNCHANGED <<config_vars, env, vehicles, state, footprint, cur_action,
                   iter, timestamp, thread_vars, error, succeed_rate, frame,
                   before_replay>>

\* Lines 79-92: the termination check.  All at target: "successed" and
\* ++succeed_count; any collision or timestamp > max_simulation_time:
\* "failed"; both leave the while loop.  Otherwise the tick starts (94-95).
Check ==
    /\ pc = "check"
    /\ IF is_all_get_target(state)
       THEN /\ log' = "successed"
            /\ succeed_count' = succeed_count + 1
            /\ cause' = "all_target"
            /\ pc' = "replay"
            /\ UNCHANGED <<snapshot, ticks>>
       ELSE IF is_any_collision(state) \/ timestamp > MaxSimTime
       THEN /\ log' = "failed"
            /\ succeed_count' = succeed_count
            /\ cause' = IF is_any_collision(state) THEN "collision"
                                                   ELSE "timeout"
            /\ pc' = "replay"
            /\ UNCHANGED <<snapshot, ticks>>
       ELSE /\ pc' = "spawn"
            /\ snapshot' = state
            /\ ticks' = ticks + 1
            /\ UNCHANGED <<log, succeed_count, cause>>
    /\ recorded' = IF pc' = "replay" THEN recorded \cup {<<cause', log'>>}
                                     ELSE recorded
    /\ k' = 1
    /\ UNCHANGED <<config_vars, env, vehicles, state, footprint, cur_action,
                   iter, timestamp, thread_vars, error, succeed_rate, frame,
                   before_replay>>

\* Spawn with the loop of line 96 ending one vehicle early.
SpawnOneShort ==
    /\ pc = "spawn"
    /\ tpc' = [tpc EXCEPT ![k] = "running"]
    /\ IF k >= NumVehicles - 1 THEN pc' = "join" /\ k' = 1
                               ELSE pc' = pc /\ k' = k + 1
    /\ UNCHANGED <<config_vars, env, vehicles, state, footprint, cur_action,
                   succeed_count, iter, timestamp, obs, log, error,
                   succeed_rate, frame, history_vars>>

\* Lines 96-101: one std::thread per vehicle, created in list order; a
\* thread runs from the moment it is created.
Spawn ==
    /\ pc = "spawn"
    /\ tpc' = [tpc EXCEPT ![k] = "running"]
    /\ IF k = NumVehicles THEN pc' = "join" /\ k' = 1
                          ELSE pc' = pc /\ k' = k + 1
    /\ UNCHANGED <<config_vars, env, vehicles, state, footprint, cur_action,
                   succeed_count, iter, timestamp, obs, log, error,
                   succeed_rate, frame, history_vars>>

\* Line 98, inside the thread: excute() plans against the other vehicles.
\* exclude() hands it the other Vehicle objects themselves (shared_ptr), so
\* it reads their live state, one vehicle after the other.
ExcuteRead(v) ==
    /\ tpc[v] = "running"
    /\ Len(obs[v]) < NumVehicles - 1
    /\ obs' = [obs EXCEPT ![v] = Append(@, state[exclude(v)[Len(@) + 1]])]
    /\ UNCHANGED <<config_vars, pc, env, vehicles, state, footprint,
                   cur_action, succeed_count, iter, timestamp, k, tpc, log,
                   error, succeed_rate, frame, history_vars>>

\* Line 98, inside the thread: excute() takes the planned action, advances
\* the vehicle's own state by one kinematic step and appends it to the
\* footprint.  run() has no step after the join that would do it.  What the
\* thread read is dead from here on.
ExcuteMove(v) ==
    /\ tpc[v] = "running"
    /\ Len(obs[v]) = NumVehicles - 1
    /\ LET a == plan(level[v], state[v], obs[v])
           s == kinematic_propagate(state[v], a)
       IN /\ cur_action' = [cur_action EXCEPT ![v] = a]
          /\ state' = [state EXCEPT ![v] = s]
          /\ footprint' = [footprint EXCEPT ![v] = Append(@, s)]
    /\ tpc' = [tpc EXCEPT ![v] = "finished"]
    /\ obs' = [obs EXCEPT ![v] = <<>>]
    /\ UNCHANGED <<config_vars, pc, env, vehicles, succeed_count, iter,
                   timestamp, k, log, error, succeed_rate, frame,
                   history_vars>>

\* Join that does not wait (the thread detached instead of joined): run()
\* goes on while planning threads are still running.
JoinNoWait ==
    /\ pc = "join"
    /\ IF k = NumVehicles
       THEN /\ pc' = "draw"
            /\ k' = 1
            /\ tpc' = [v \in Vehicles |->
                          IF tpc[v] = "running" THEN "running" ELSE "idle"]
       ELSE /\ pc' = pc
            /\ k' = k + 1
            /\ tpc' = tpc
    /\ UNCHANGED <<config_vars, env, vehicles, state, footprint, cur_action,
                   succeed_count, iter, timestamp, obs, log, error,
                   succeed_rate, frame, history_vars>>

\* Lines 103-107: join the threads in list order; join() returns once the
\* thread has finished.  The thread objects die with the vector (line 134).
Join ==
    /\ pc = "join"
    /\ tpc[k] = "finished"
    /\ IF k = NumVehicles
       THEN /\ pc' = "draw"
            /\ k' = 1
            /\ tpc' = [v \in Vehicles |-> "idle"]
       ELSE /\ pc' = pc
            /\ k' = k + 1
            /\ tpc' = [tpc EXCEPT ![k] = "joined"]
    /\ UNCHANGED <<config_vars, env, vehicles, state, footprint, cur_action,
                   succeed_count, iter, timestamp, obs, log, error,
                   succeed_rate, frame, history_vars>>

\* Lines 109-133: with show_animation the tick is drawn (every vehicle's
\* state, action and level are read); then timestamp += delta_t.
EndTick ==
    /\ pc = "draw"
    /\ frame' = IF show_animation THEN "tick" ELSE frame
    /\ timestamp' = timestamp + delta_t
    /\ pc' = "check"
    /\ UNCHANGED <<config_vars, env, vehicles, state, footprint, cur_action,
                   succeed_count, iter, k, thread_vars, log, error,
                   succeed_rate, history_vars>>

\* ReplayState stopping after the first State of the footprint.
ReplayStateFirst(s, fp) == IF fp = <<>> THEN s ELSE Head(fp)

\* Lines 139-143: vehicle->state = state for every State of the footprint,
\* in order: what vehicle->state holds after the inner loop.
RECURSIVE ReplayState(_, _)
ReplayState(s, fp) ==
    IF fp = <<>> THEN s ELSE ReplayState(Head(fp), Tail(fp))

\* Lines 136-155: the end-of-round replay (drawn whatever show_animation
\* says), then ++iter.
Replay ==
    /\ pc = "replay"
    /\ before_replay' = <<state, footprint>>
    /\ state' = [v \in Vehicles |-> ReplayState(state[v], footprint[v])]
    /\ frame' = "round"
    /\ iter' = iter + 1
    /\ pc' = "loop"
    /\ UNCHANGED <<config_vars, env, vehicles, footprint, cur_action,
                   succeed_count, timestamp, k, thread_vars, log, error,
                   succeed_rate, snapshot, cause, recorded, ticks>>

\* Lines 157-159: after the loop.  With rounds_num = 0 the unsigned division
\* divides by zero, which is undefined: the process traps, or goes on with
\* some value.  Nothing tests rounds_num before it.
Stats ==
    /\ pc = "loop"
    /\ ~LoopContinues(iter, rounds_num)
    /\ \/ /\ rounds_num # 0
          /\ succeed_rate' = SucceedRate(succeed_count, rounds_num)
          /\ pc' = "done"
       \/ /\ rounds_num = 0
          /\ succeed_rate' = succeed_rate
          /\ pc' = "crashed"
       \/ /\ rounds_num = 0
          /\ succeed_rate' \in {0, 10000}
          /\ pc' = "done"
    /\ UNCHANGED <<config_vars, env, vehicles, state, footprint, cur_action,
                   succeed_count, iter, timestamp, k, thread_vars, log,
                   error, frame, history_vars>>

Next ==
    \/ LoadConfig
    \/ Initialize
    \/ RoundStart
    \/ Check
    \/ Spawn
    \/ \E v \in Vehicles : ExcuteRead(v)
    \/ \E v \in Vehicles : ExcuteMove(v)
    \/ Join
    \/ EndTick
    \/ Replay
    \/ Stats

Spec == Init /\ [][Next]_vars

\* run() on a machine that keeps running it: the main thread and every
\* planning thread take their next step as long as they have one (every
\* excute() returns, join() returns once its thread has finished).
\* The inputs are the well-formed configurations with up to two rounds and
\* no animation (the drawing is output only and takes no part in the loop).
LiveRounds == {0, 1, 2}

InitLive ==
    /\ cfg = "ok"
    /\ rounds_num \in LiveRounds
    /\ show_animation = FALSE
    /\ delta_t \in DeltaTs
    /\ level \in [Vehicles -> Levels]
    /\ cross \in CrossCells
    /\ InitRun

SpecLive == InitLive /\ [][Next]_vars /\ WF_vars(Next)

\* run() with more rounds, for the success rate, under the configurations
\* with a well-formed file, no animation, delta_t = 1 and routes that cross
\* in the start area.
InitRate ==
    /\ cfg = "ok"
    /\ rounds_num \in 0..MaxRateRounds
    /\ show_animation = FALSE
    /\ delta_t = 1
    /\ level \in [Vehicles -> Levels]
    /\ cross = 1
    /\ InitRun

SpecRate == InitRate /\ [][Next]_vars

\* ------------------------------------------------------------- claims
\* What thread v would have read from the states st, in the order it reads.
Others(st, v) == [i \in 1..(NumVehicles - 1) |-> st[exclude(v)[i]]]

\* C1: within a tick every planning thread observes the states as they were
\* when the tick started: whatever a thread has read of another vehicle is
\* that vehicle's state of the snapshot, under every interleaving.
C1_FrozenSnapshot ==
    \A v \in Vehicles : \A i \in 1..Len(obs[v]) :
        obs[v][i] = snapshot[exclude(v)[i]]

\* C2: the outcome of a tick does not depend on the scheduling of its
\* threads: once all are joined, every vehicle's chosen action and next
\* state are those planned against the states the tick started from (the
\* outcome of the interleaving in which every thread reads before any
\* moves), so any two interleavings agree.
C2_ScheduleIndependent ==
    pc = "draw" =>
        \A v \in Vehicles :
            LET a == plan(level[v], snapshot[v], Others(snapshot, v))
            IN /\ cur_action[v] = a
               /\ state[v] = kinematic_propagate(snapshot[v], a)

\* C3: no vehicle's state or footprint changes between the spawn of the
\* first planning thread and the join of the last.
C3_NoMutationWhilePlanning ==
    [][(pc \in {"spawn", "join"}) =>
            (state' = state /\ footprint' = footprint)]_vars

C5_ZeroRoundsReported ==
    (cfg = "ok" /\ rounds_num = 0 /\ pc \in {"done", "crashed", "returned"})
        => (pc = "returned" /\ error)

\* C6: a configuration that parses but lacks a required key makes run()
\* report an error and return without running a round; the process does
\* not die of an uncaught exception.
C6_MalformedConfigReported ==
    (cfg = "missing_key" /\ pc \notin {"load", "init"})
        => (pc = "returned" /\ error /\ iter = 0 /\ ticks = 0)

\* C7: when the configuration file fails to parse, run() reports the error
\* and returns: nothing is initialized, no round or tick runs, no outcome
\* is recorded and no success rate is computed.
C7_ParseFailureReturns ==
    (cfg = "unparsable" /\ pc # "load") =>
        /\ pc = "returned"
        /\ error
        /\ env = FALSE
        /\ vehicles = {}
        /\ iter = 0 /\ ticks = 0 /\ succeed_count = 0
        /\ log = "none" /\ recorded = {}
        /\ succeed_rate = 0
        /\ frame = "none"

\* run() has returned from a parse failure.
C7_Witness == cfg = "unparsable" /\ pc = "returned" /\ error

\* C8: the reported success rate is 100 * succeed_count / rounds_num to the
\* two decimals printed: in hundredths of a percent it is within half a
\* unit of 10000 * succeed_count / rounds_num.
C8_RateExact ==
    (pc = "done" /\ rounds_num >= 1) =>
        LET d == succeed_rate * rounds_num - 10000 * succeed_count
        IN 2 * (IF d < 0 THEN -d ELSE d) <= rounds_num

C10_RoundStartsFresh ==
    (pc = "check" /\ ticks = 0) =>
        /\ timestamp = 0
        /\ log = "none"
        /\ \A v \in Vehicles :
              /\ state[v] \in InitPoses
              /\ footprint[v] = <<state[v]>>

\* The second round starts after a round in which the vehicles moved.
C10_Witness ==
    /\ pc = "check" /\ ticks = 0
    /\ iter >= 1
    /\ "all_target" \in {p[1] : p \in recorded}

\* C11: a round whose terminating check finds a collision ends as a failure
\* and is not counted in succeed_count, also when all vehicles are at their
\* targets at that check (stated for the runs of a round count >= 0).
C11_CollisionFails ==
    [][(rounds_num >= 0 /\ pc = "check" /\ is_any_collision(state)) =>
            (pc' = "replay" /\ log' = "failed"
             /\ succeed_count' = succeed_count)]_vars

\* C12: whenever the termination check runs with the timestamp above
\* max_simulation_time the round ends as a failure and succeed_count is not
\* incremented (stated for the runs of a round count >= 0).
C12_TimeoutFails ==
    [][(rounds_num >= 0 /\ pc = "check" /\ timestamp > MaxSimTime) =>
            (pc' = "replay" /\ log' = "failed"
             /\ succeed_count' = succeed_count)]_vars

\* C13: every tick of a running round starts exactly one thread per
\* vehicle, and each runs excute() exactly once, against all the other
\* vehicles, before the timestamp advances: while the threads are created
\* exactly the vehicles before k have one; while they are joined every
\* vehicle has one; what a thread has read are the other vehicles, in list
\* order (their states, as long as they have not moved); and every
\* footprint has grown by one State per tick, no more and no less.
C13_OneTaskPerVehicle ==
    /\ pc = "spawn" => \A v \in Vehicles : (v < k) <=> (tpc[v] # "idle")
    /\ pc = "join" => \A v \in Vehicles : tpc[v] # "idle"
    /\ \A v \in Vehicles :
          tpc[v] = "running" =>
              /\ Len(obs[v]) <= NumVehicles - 1
              /\ \A i \in 1..Len(obs[v]) :
                    \/ obs[v][i] = state[exclude(v)[i]]
                    \/ tpc[exclude(v)[i]] \in {"finished", "joined"}
    /\ pc \in {"spawn", "join"} =>
          \A v \in Vehicles :
              Len(footprint[v]) =
                  ticks + (IF tpc[v] \in {"finished", "joined"} THEN 1 ELSE 0)
    /\ pc \in {"check", "draw", "replay"} =>
          \A v \in Vehicles : Len(footprint[v]) = ticks + 1

\* A tick after the first has run every vehicle once more.
C13_Witness ==
    /\ pc = "draw"
    /\ ticks = 2
    /\ \A v \in Vehicles : Len(footprint[v]) = 3

\* C14: the join barrier comes first: outside the creation and the join of
\* the threads no planning thread exists, so the per-tick drawing, the
\* timestamp increment, the next termination check and the end-of-round
\* replay all run with every thread of the tick finished and joined.
C14_JoinBarrier ==
    pc \notin {"spawn", "join"} =>
        \A v \in Vehicles : tpc[v] = "idle" /\ obs[v] = <<>>

\* The drawing of a tick is about to read the vehicles, all threads joined.
C14_Witness ==
    /\ pc = "draw"
    /\ show_animation
    /\ ticks >= 1
    /\ \A v \in Vehicles : tpc[v] = "idle"

\* C15: with delta_t > 0 and planning threads that finish, every round that
\* reaches its first termination check ends (its outcome is recorded and
\* the replay follows), and with rounds_num >= 1 and a well-formed
\* configuration the run reaches the final report.
C15_Terminates ==
    /\ (pc = "check") ~> (pc = "replay")
    /\ (pc = "loop" /\ rounds_num >= 1) ~> (pc = "done")

\* The run has reached the report after a round that only the time ceiling
\* ended.
C15_Witness ==
    /\ pc = "done"
    /\ rounds_num >= 1
    /\ <<"timeout", "failed">> \in recorded

C17_RoundAccounting ==
    /\ [](rounds_num >= 0 =>
            /\ iter <= rounds_num
            /\ pc = "done" => iter = rounds_num
            /\ pc \in {"check", "spawn", "join", "draw"} =>
                  (log = "none" /\ iter < rounds_num)
            /\ pc = "replay" =>
                  (log \in {"successed", "failed"} /\ iter < rounds_num)
            /\ succeed_count <= iter + (IF pc = "replay" THEN 1 ELSE 0))
    /\ [][rounds_num >= 0 =>
            /\ (succeed_count' # succeed_count) =>
                  (pc = "check" /\ is_all_get_target(state)
                   /\ succeed_count' = succeed_count + 1)
            /\ (pc = "check" /\ pc' = "replay") =>
                  /\ log' \in {"successed", "failed"}
                  /\ (log' = "successed") <=>
                        (succeed_count' = succeed_count + 1)
                  /\ (log' = "failed") <=> (succeed_count' = succeed_count)
            /\ (log' # log /\ log' # "none") => (pc = "check" /\ pc' = "replay")
            /\ (iter' # iter) => (pc = "replay" /\ iter' = iter + 1)]_vars

\* A run of two rounds has ended with one round succeeded and one failed.
C17_Witness ==
    /\ pc = "done"
    /\ rounds_num = 2
    /\ iter = 2
    /\ succeed_count = 1

\* C18: a negative round count runs no rounds: with rounds_num < 0 the round
\* loop executes zero rounds and no planning tick.
C18_NegativeRunsNothing ==
    rounds_num < 0 =>
        /\ iter = 0
        /\ ticks = 0
        /\ pc \notin {"check", "spawn", "join", "draw", "replay"}
====
